---- MODULE Spec2Model ----
(***************************************************************************)
(* Model of ResourceMonitor (src/unnamed/part_000, the module imported as  *)
(* ./monitor/monitor.js by src/src/extension.ts).                          *)
(*                                                                         *)
(* JavaScript values are records [t, v]: t = "num" carries the integer v,  *)
(* the other tags are NaN, -Infinity, +Infinity, undefined and null.       *)
(* A usage percentage (the result of toFixed(2)) is carried in hundredths: *)
(* Num(5062) is the JavaScript number 50.62.                               *)
(*                                                                         *)
(* intervalId, intervalSeconds, displayOptions, lastCpuIdle, lastCpuTotal  *)
(* are the fields of the monitor; text and tooltip are those of its        *)
(* statusBarItem; timers are the timers setInterval created; cycles are    *)
(* the collectAndUpdate calls suspended on a read and started counts the   *)
(* calls made; errorMessages is what showErrorMessage was given; menus     *)
(* counts the pickers awaiting an answer.  called names the operation of   *)
(* the last step; samples and returned record the direct calls of          *)
(* parseCPUUsage (the texts given, the last value returned).  extension is *)
(* the state of activate() in extension.ts (whether it has run, the const  *)
(* intervalSeconds it captured, the configured monitorIntervalSeconds).    *)
(* order numbers the reads of /proc/stat: reads counts them, stored is the *)
(* number of the read whose sample the CPU counters hold (0 for none); a   *)
(* cycle's seq is the number of its own read, and a cycle is old once the  *)
(* selection is no longer the one under which it started (a render by an   *)
(* old cycle is called render 1).  Both are history: order.kept says which *)
(* of them a behaviour keeps (the reads in SpecOrder, the selections in    *)
(* SpecSelection, none elsewhere).  pair holds two monitors that are given *)
(* the same ticks and the same read results (SpecPair).                    *)
(***************************************************************************)
EXTENDS Integers, Sequences, FiniteSets, TLC

VARIABLES intervalId, intervalSeconds, timers, text, tooltip, displayOptions,
          lastCpuIdle, lastCpuTotal, cycles, started, errorMessages, menus,
          called, returned, samples, extension, order, pair

vars == <<intervalId, intervalSeconds, timers, text, tooltip, displayOptions,
          lastCpuIdle, lastCpuTotal, cycles, started, errorMessages, menus,
          called, returned, samples, extension, order, pair>>

(***************************************************************************)
(* Bounds                                                                  *)
(***************************************************************************)
MaxTimers == 2
MaxCycles == 2
MaxMenus == 1
MaxCalls == 3

(***************************************************************************)
(* JavaScript numbers, null and undefined                                  *)
(***************************************************************************)
Num(n) == [t |-> "num", v |-> n]
NaN == [t |-> "nan", v |-> 0]
NegInfinity == [t |-> "-inf", v |-> 0]
PosInfinity == [t |-> "+inf", v |-> 0]
Undefined == [t |-> "undefined", v |-> 0]
Null == [t |-> "null", v |-> 0]

IsNum(x) == x.t = "num"

Abs(n) == IF n < 0 THEN -n ELSE n

\* ToNumber of the operands of a binary arithmetic operator
ToNumber(x) == IF x = Null THEN Num(0) ELSE IF x = Undefined THEN NaN ELSE x

\* a + b on finite numbers, NaN when an operand is NaN or undefined
JsAdd(a, b) ==
    LET x == ToNumber(a)
        y == ToNumber(b)
    IN IF IsNum(x) /\ IsNum(y) THEN Num(x.v + y.v) ELSE NaN

\* a - b on finite numbers, NaN when an operand is NaN or undefined
JsSub(a, b) ==
    LET x == ToNumber(a)
        y == ToNumber(b)
    IN IF IsNum(x) /\ IsNum(y) THEN Num(x.v - y.v) ELSE NaN

\* Quotient and remainder of a * 10^k by b (a >= 0, b > 0), by long division
RECURSIVE LongDiv(_, _, _)
LongDiv(a, b, k) ==
    IF k = 0 THEN [q |-> a \div b, r |-> a % b]
    ELSE LET p == LongDiv(a, b, k - 1)
         IN [q |-> p.q * 10 + (p.r * 10) \div b, r |-> (p.r * 10) % b]

\* The integer nearest to 10000 * n / d, a tie going away from zero
\* (Number.prototype.toFixed picks the larger magnitude when two candidates
\* are equally near; a tie needs d to be a multiple of 32 and happens for
\* none of the inputs below)
RoundHundredths(n, d) ==
    LET p == LongDiv(Abs(n), Abs(d), 4)
        q == p.q + (IF 2 * p.r >= Abs(d) THEN 1 ELSE 0)
    IN IF (n < 0) = (d < 0) THEN q ELSE -q

\* parseFloat(((num / den) * 100).toFixed(2)), in hundredths
Percent2(num, den) ==
    IF ~(IsNum(num) /\ IsNum(den)) THEN NaN
    ELSE IF den.v = 0
         THEN IF num.v = 0 THEN NaN
              ELSE IF num.v < 0 THEN NegInfinity ELSE PosInfinity
         ELSE Num(RoundHundredths(num.v, den.v))

(***************************************************************************)
(* Text.  A token is a sequence of characters: 0..9 are the digits, Letter *)
(* is any character that is neither a digit, a dot nor white space, Dot is *)
(* ".".  A line is its first token (head) and the tokens that follow it,   *)
(* each preceded by a run of spaces; a text is a sequence of lines.        *)
(***************************************************************************)
Letter == 10
Dot == 11
IsDigit(c) == c \in 0..9

\* The value of a sequence of decimal digits, 0 for the empty one
RECURSIVE DigitsValue(_)
DigitsValue(ds) ==
    IF ds = <<>> THEN 0
    ELSE 10 * DigitsValue(SubSeq(ds, 1, Len(ds) - 1)) + ds[Len(ds)]

\* The longest prefix of tok made of digits
RECURSIVE LeadingDigits(_)
LeadingDigits(tok) ==
    IF tok = <<>> \/ ~IsDigit(Head(tok)) THEN <<>>
    ELSE <<Head(tok)>> \o LeadingDigits(Tail(tok))

\* Number(tok) for a token of digits and letters: "" is 0, a token with a
\* letter is NaN
Number(tok) ==
    IF \A i \in 1..Len(tok) : IsDigit(tok[i]) THEN Num(DigitsValue(tok)) ELSE NaN

\* parseInt(tok): the leading digits, NaN when there are none
ParseInt(tok) ==
    IF LeadingDigits(tok) = <<>> THEN NaN ELSE Num(DigitsValue(LeadingDigits(tok)))

\* A decimal m / 10^s as the JavaScript number it denotes (0.50 is 0.5)
RECURSIVE Decimal(_, _)
Decimal(m, s) ==
    IF s = 0 THEN Num(m)
    ELSE IF m % 10 = 0 THEN Decimal(m \div 10, s - 1)
    ELSE [t |-> "dec", v |-> m, s |-> s]

\* parseFloat(tok): digits, optionally a dot and digits; NaN without a digit
ParseFloat(tok) ==
    LET ip == LeadingDigits(tok)
        rest == SubSeq(tok, Len(ip) + 1, Len(tok))
        fp == IF rest # <<>> /\ Head(rest) = Dot THEN LeadingDigits(Tail(rest)) ELSE <<>>
    IN IF ip = <<>> /\ fp = <<>> THEN NaN
       ELSE Decimal(DigitsValue(ip \o fp), Len(fp))

Line(head, fields) == [head |-> head, fields |-> fields]

\* lines.find(pred), matching being the indices of the lines that satisfy
\* pred: the first of them, undefined when there is none
Find(lines, matching) ==
    IF matching # {}
    THEN lines[CHOOSE i \in matching : \A j \in matching : i <= j]
    ELSE Undefined

(***************************************************************************)
(* parseCPUUsage                                                           *)
(***************************************************************************)
\* Variant: line.startsWith("cpu"), which per-core lines satisfy too
IsCpuLine_Prefix(line) == line.head \in {"cpu", "cpu0"} /\ Len(line.fields) >= 1

\* line.startsWith("cpu "): the head is exactly cpu and white space follows
IsCpuLine(line) == line.head = "cpu" /\ Len(line.fields) >= 1

\* Whether lines.find(line => line.startsWith("cpu ")) finds a line
HasCpuLine(data) == \E i \in 1..Len(data) : IsCpuLine(data[i])

\* cpuLine.split(/\s+/).slice(1).map(Number)
CpuParts(cpuLine) == [i \in 1..Len(cpuLine.fields) |-> Number(cpuLine.fields[i])]

\* Variant: the idle counter taken from the third field
CpuIdle_ThirdField(parts) == IF Len(parts) >= 3 THEN parts[3] ELSE Undefined

\* parts[3]
CpuIdle(parts) == IF Len(parts) >= 4 THEN parts[4] ELSE Undefined

\* parts.reduce((a, b) => a + b, 0)
RECURSIVE CpuTotal(_)
CpuTotal(parts) ==
    IF parts = <<>> THEN Num(0)
    ELSE JsAdd(CpuTotal(SubSeq(parts, 1, Len(parts) - 1)), parts[Len(parts)])

\* ((totalDiff - idleDiff) / totalDiff) * 100, toFixed(2), parseFloat
CpuUsage(idleDiff, totalDiff) == Percent2(JsSub(totalDiff, idleDiff), totalDiff)

\* Variant: a first call diffs against zero counters instead of returning 0
parseCPUUsage_ZeroBaseline(data, lastIdle, lastTotal) ==
    LET cpuLine == Find(data, {i \in 1..Len(data) : IsCpuLine(data[i])})
    IN IF cpuLine = Undefined
       THEN [ret |-> Num(0), lastCpuIdle |-> lastIdle, lastCpuTotal |-> lastTotal]
       ELSE LET parts == CpuParts(cpuLine)
                idle == CpuIdle(parts)
                total == CpuTotal(parts)
                idleDiff == JsSub(idle, lastIdle)
                totalDiff == JsSub(total, lastTotal)
            IN [ret |-> IF totalDiff = Num(0) THEN Num(0)
                        ELSE CpuUsage(idleDiff, totalDiff),
                lastCpuIdle |-> idle, lastCpuTotal |-> total]

\* Variant: the counters are stored by the first measurement only
parseCPUUsage_KeepBaseline(data, lastIdle, lastTotal) ==
    LET cpuLine == Find(data, {i \in 1..Len(data) : IsCpuLine(data[i])})
    IN IF cpuLine = Undefined
       THEN [ret |-> Num(0), lastCpuIdle |-> lastIdle, lastCpuTotal |-> lastTotal]
       ELSE LET parts == CpuParts(cpuLine)
                idle == CpuIdle(parts)
                total == CpuTotal(parts)
                idleDiff == JsSub(idle, lastIdle)
                totalDiff == JsSub(total, lastTotal)
            IN IF lastIdle = Null \/ lastTotal = Null
               THEN [ret |-> Num(0), lastCpuIdle |-> idle, lastCpuTotal |-> total]
               ELSE [ret |-> IF totalDiff = Num(0) THEN Num(0)
                             ELSE CpuUsage(idleDiff, totalDiff),
                     lastCpuIdle |-> lastIdle, lastCpuTotal |-> lastTotal]

\* Variant: the division-by-zero guard returns before the counters are stored
parseCPUUsage_GuardBeforeStore(data, lastIdle, lastTotal) ==
    LET cpuLine == Find(data, {i \in 1..Len(data) : IsCpuLine(data[i])})
    IN IF cpuLine = Undefined
       THEN [ret |-> Num(0), lastCpuIdle |-> lastIdle, lastCpuTotal |-> lastTotal]
       ELSE LET parts == CpuParts(cpuLine)
                idle == CpuIdle(parts)
                total == CpuTotal(parts)
                idleDiff == JsSub(idle, lastIdle)
                totalDiff == JsSub(total, lastTotal)
            IN IF lastIdle = Null \/ lastTotal = Null
               THEN [ret |-> Num(0), lastCpuIdle |-> idle, lastCpuTotal |-> total]
               ELSE IF totalDiff = Num(0)
                    THEN [ret |-> Num(0), lastCpuIdle |-> lastIdle,
                          lastCpuTotal |-> lastTotal]
                    ELSE [ret |-> CpuUsage(idleDiff, totalDiff),
                          lastCpuIdle |-> idle, lastCpuTotal |-> total]

\* The result of parseCPUUsage(data) with the counters lastIdle, lastTotal:
\* the value returned and the counters after the call
parseCPUUsage(data, lastIdle, lastTotal) ==
    LET cpuLine == Find(data, {i \in 1..Len(data) : IsCpuLine(data[i])})
    IN IF cpuLine = Undefined
       THEN [ret |-> Num(0), lastCpuIdle |-> lastIdle, lastCpuTotal |-> lastTotal]
       ELSE LET parts == CpuParts(cpuLine)
                idle == CpuIdle(parts)
                total == CpuTotal(parts)
                idleDiff == JsSub(idle, lastIdle)
                totalDiff == JsSub(total, lastTotal)
            IN IF lastIdle = Null \/ lastTotal = Null
               THEN [ret |-> Num(0), lastCpuIdle |-> idle, lastCpuTotal |-> total]
               ELSE [ret |-> IF totalDiff = Num(0) THEN Num(0)
                             ELSE CpuUsage(idleDiff, totalDiff),
                     lastCpuIdle |-> idle, lastCpuTotal |-> total]

(***************************************************************************)
(* parseMemoryUsage, parseLoadAverages                                     *)
(***************************************************************************)
\* line.startsWith("MemTotal:"), line.startsWith("MemAvailable:")
IsMemTotalLine(line) == line.head = "MemTotal:"
IsMemAvailableLine(line) == line.head = "MemAvailable:"

\* line.match(/:\s+(\d+)/): the digits that follow the colon ending the head
\* and the white space after it; "0" when the next token has no leading digit
extractValue(line) ==
    IF Len(line.fields) >= 1 /\ LeadingDigits(line.fields[1]) # <<>>
    THEN LeadingDigits(line.fields[1])
    ELSE <<0>>

DefaultMemTotal == Line("MemTotal:", <<<<0>>, <<Letter, Letter>>>>)
DefaultMemAvailable == Line("MemAvailable:", <<<<0>>, <<Letter, Letter>>>>)

OrElse(found, default) == IF found = Undefined THEN default ELSE found

parseMemoryUsage(data) ==
    LET totalLine == Find(data, {i \in 1..Len(data) : IsMemTotalLine(data[i])})
        availableLine == Find(data, {i \in 1..Len(data) : IsMemAvailableLine(data[i])})
        memTotal == ParseInt(extractValue(OrElse(totalLine, DefaultMemTotal)))
        memAvailable == ParseInt(extractValue(OrElse(availableLine, DefaultMemAvailable)))
        used == JsSub(memTotal, memAvailable)
    IN Percent2(used, memTotal)

\* data.split(" ").slice(0, 3).map(parseFloat); data is given as its tokens
parseLoadAverages(data) ==
    [i \in 1..(IF Len(data) < 3 THEN Len(data) ELSE 3) |-> ParseFloat(data[i])]

(***************************************************************************)
(* Inputs                                                                  *)
(***************************************************************************)
\* Values of monitorIntervalSeconds (two of the values package.json offers)
Intervals == {1, 5}

PerCoreLine == Line("cpu0", <<<<1, 0, 0>>, <<2, 0>>, <<3, 0>>, <<4, 0, 0>>>>)
IntrLine == Line("intr", <<<<1, 2, 3, 4, 5, 6, 7, 8, 9>>>>)

\* cpu  1000 200 300 4000 500 600 700 800  (idle 4000, sum 8100)
CpuData1 ==
    <<Line("cpu", <<<<1, 0, 0, 0>>, <<2, 0, 0>>, <<3, 0, 0>>, <<4, 0, 0, 0>>,
                   <<5, 0, 0>>, <<6, 0, 0>>, <<7, 0, 0>>, <<8, 0, 0>>>>),
      PerCoreLine, IntrLine>>

\* cpu  1500 300 400 4500 600 700 800 900  (idle 4500, sum 9700)
CpuData2 ==
    <<Line("cpu", <<<<1, 5, 0, 0>>, <<3, 0, 0>>, <<4, 0, 0>>, <<4, 5, 0, 0>>,
                   <<6, 0, 0>>, <<7, 0, 0>>, <<8, 0, 0>>, <<9, 0, 0>>>>),
      PerCoreLine, IntrLine>>

\* cpu 0 0 0 0  (idle 0, sum 0)
CpuDataZero == <<Line("cpu", <<<<0>>, <<0>>, <<0>>, <<0>>>>)>>

\* the aggregate line after another line: cpu 1 0 0 3  (idle 3, sum 4)
CpuDataA == <<IntrLine, Line("cpu", <<<<1>>, <<0>>, <<0>>, <<3>>>>)>>

\* cpu 2 0 0 2  (idle 2, sum 4)
CpuDataB == <<Line("cpu", <<<<2>>, <<0>>, <<0>>, <<2>>>>), PerCoreLine>>

\* cpu 4 0 0 1  (idle 1, sum 5)
CpuDataC == <<Line("cpu", <<<<4>>, <<0>>, <<0>>, <<1>>>>)>>

\* "cpu 7 ": two fields, the second one empty
CpuDataShort == <<Line("cpu", <<<<7>>, <<>>>>)>>

\* cpu 1 x 3 4
CpuDataLetter == <<Line("cpu", <<<<1>>, <<Letter>>, <<3>>, <<4>>>>)>>

\* invalid data
InvalidData == <<Line("invalid", <<<<Letter, Letter, Letter, Letter>>>>)>>

\* per-core lines only
CpuDataPerCore == <<PerCoreLine, IntrLine>>

\* The texts given to parseCPUUsage when it is called directly
CpuTexts ==
    {CpuData1, CpuData2, CpuDataZero, CpuDataA, CpuDataB, CpuDataC, CpuDataShort,
     CpuDataLetter, InvalidData, CpuDataPerCore}

\* MemTotal: 16384000 kB / MemFree: ... / MemAvailable: 6553600 kB
MemData1 ==
    <<Line("MemTotal:", <<<<1, 6, 3, 8, 4, 0, 0, 0>>, <<Letter, Letter>>>>),
      Line("MemFree:", <<<<8, 1, 9, 2, 0, 0, 0>>, <<Letter, Letter>>>>),
      Line("MemAvailable:", <<<<6, 5, 5, 3, 6, 0, 0>>, <<Letter, Letter>>>>)>>

\* MemTotal: 100 kB
MemDataOnlyTotal == <<Line("MemTotal:", <<<<1, 0, 0>>, <<Letter, Letter>>>>)>>

\* MemFree: 8192000 kB / MemAvailable: 6553600 kB
MemDataOnlyAvailable ==
    <<Line("MemFree:", <<<<8, 1, 9, 2, 0, 0, 0>>, <<Letter, Letter>>>>),
      Line("MemAvailable:", <<<<6, 5, 5, 3, 6, 0, 0>>, <<Letter, Letter>>>>)>>

\* MemAvailable: 150 kB / MemTotal: 100 kB
MemDataExceeds ==
    <<Line("MemAvailable:", <<<<1, 5, 0>>, <<Letter, Letter>>>>),
      Line("MemTotal:", <<<<1, 0, 0>>, <<Letter, Letter>>>>)>>

\* MemTotal: unknown / MemAvailable: unknown
MemDataNoValue ==
    <<Line("MemTotal:", <<<<Letter, Letter>>>>),
      Line("MemAvailable:", <<<<Letter, Letter>>>>)>>

\* MemTotal: 3 kB / MemAvailable: 1 kB  (66.67)
MemDataThird ==
    <<Line("MemTotal:", <<<<3>>, <<Letter, Letter>>>>),
      Line("MemAvailable:", <<<<1>>, <<Letter, Letter>>>>)>>

\* The texts given to parseMemoryUsage when it is called directly
MemTexts ==
    {MemData1, InvalidData, MemDataOnlyTotal, MemDataOnlyAvailable, MemDataExceeds,
     MemDataNoValue, MemDataThird}

\* 1.25 0.75 0.50 2/123 12345
LoadData1 ==
    <<<<1, Dot, 2, 5>>, <<0, Dot, 7, 5>>, <<0, Dot, 5, 0>>, <<2, Letter, 1, 2, 3>>,
      <<1, 2, 3, 4, 5>>>>

\* invalid
LoadDataInvalid == <<<<Letter, Letter, Letter, Letter, Letter, Letter, Letter>>>>

\* What a read of /proc/stat, /proc/meminfo, /proc/loadavg may resolve to
StatReads == {CpuData1, CpuData2}
MeminfoReads == {MemData1}
LoadavgReads == {LoadData1}

\* What a read may reject with: an Error with a message
ReadErrors == {[isError |-> TRUE, message |-> "ENOENT"],
               [isError |-> TRUE, message |-> "EACCES"]}

\* The labels of the picker's items, up to their first word
PickerLabels == {"CPU", "Memory", "Load"}

\* The selections showQuickPick resolves with: nothing, one item, every item
Selections == {{}, {"CPU"}, PickerLabels}

\* Every selection showQuickPick can resolve with
AllSelections == SUBSET PickerLabels

\* A read of /proc/meminfo that resolves with a well-formed or with an
\* unparseable text
MeminfoTexts == {MemData1, InvalidData}

(***************************************************************************)
(* The status bar item                                                     *)
(***************************************************************************)
\* A string is held as the sequence of its segments; "" is the empty sequence
EmptyString == <<>>
Segment(label, values, suffix) == [label |-> label, values |-> values, suffix |-> suffix]
Placeholder == <<Segment("$(gear) Configure Monitor", <<>>, "")>>

\* Variant: the joined parts are the text even when there is none
updateStatusBar_NoPlaceholder(options, cpu, memory, load) ==
    LET parts == (IF options.showCpu THEN <<Segment("CPU: ", <<cpu>>, "%")>> ELSE <<>>)
                 \o (IF options.showMemory THEN <<Segment("MEM: ", <<memory>>, "%")>> ELSE <<>>)
                 \o (IF options.showLoad THEN <<Segment("Load: ", load, "")>> ELSE <<>>)
    IN [text |-> parts,
        tooltip |-> <<Segment("Resource information of the remote server\nCPU: ", <<cpu>>, "%\n"),
                      Segment("Memory: ", <<memory>>, "%\n"),
                      Segment("Load: ", load, "\n\nClick to configure displayed metrics")>>]

\* updateStatusBar(cpu, memory, load) under the selection options: the text
\* (segments joined by " | ", load values by ", ") and the tooltip
updateStatusBar(options, cpu, memory, load) ==
    LET parts == (IF options.showCpu THEN <<Segment("CPU: ", <<cpu>>, "%")>> ELSE <<>>)
                 \o (IF options.showMemory THEN <<Segment("MEM: ", <<memory>>, "%")>> ELSE <<>>)
                 \o (IF options.showLoad THEN <<Segment("Load: ", load, "")>> ELSE <<>>)
    IN [text |-> IF Len(parts) = 0 THEN Placeholder ELSE parts,
        tooltip |-> <<Segment("Resource information of the remote server\nCPU: ", <<cpu>>, "%\n"),
                      Segment("Memory: ", <<memory>>, "%\n"),
                      Segment("Load: ", load, "\n\nClick to configure displayed metrics")>>]

(***************************************************************************)
(* The scheduler: start, stop, updateInterval act on the fields            *)
(* [intervalId, intervalSeconds, timers, text].  timers[i] is the i-th     *)
(* timer setInterval created: its period in ms while it is active,         *)
(* Cancelled once clearInterval was given it.  intervalId is NoTimer for   *)
(* null, else the index of a timer.                                        *)
(***************************************************************************)
NoTimer == 0
Cancelled == 0

\* Variant: the timer is cancelled but the rendered text is kept
stop_KeepText(m) ==
    IF m.intervalId # NoTimer
    THEN [m EXCEPT !.timers[m.intervalId] = Cancelled, !.intervalId = NoTimer]
    ELSE m

stop(m) ==
    IF m.intervalId # NoTimer
    THEN [m EXCEPT !.timers[m.intervalId] = Cancelled,
                   !.intervalId = NoTimer,
                   !.text = EmptyString]
    ELSE m

\* Variant: a new timer is armed without stopping the active one
start_NoStop(m) ==
    [m EXCEPT !.timers = Append(m.timers, m.intervalSeconds * 1000),
              !.intervalId = Len(m.timers) + 1]

start(m) ==
    LET s == IF m.intervalId # NoTimer THEN stop(m) ELSE m
    IN [s EXCEPT !.timers = Append(s.timers, s.intervalSeconds * 1000),
                 !.intervalId = Len(s.timers) + 1]

\* Variant: the restart happens before the new interval is stored
updateInterval_RestartFirst(m, newIntervalSeconds) ==
    LET wasRunning == m.intervalId # NoTimer
        restarted == IF wasRunning THEN start(stop(m)) ELSE m
    IN [restarted EXCEPT !.intervalSeconds = newIntervalSeconds]

\* Variant: the monitor is started whether or not it was running
updateInterval_AlwaysStart(m, newIntervalSeconds) ==
    LET stopped == IF m.intervalId # NoTimer THEN stop(m) ELSE m
    IN start([stopped EXCEPT !.intervalSeconds = newIntervalSeconds])

updateInterval(m, newIntervalSeconds) ==
    LET wasRunning == m.intervalId # NoTimer
        stopped == IF wasRunning THEN stop(m) ELSE m
        updated == [stopped EXCEPT !.intervalSeconds = newIntervalSeconds]
    IN IF wasRunning THEN start(updated) ELSE updated

Monitor == [intervalId |-> intervalId, intervalSeconds |-> intervalSeconds,
            timers |-> timers, text |-> text]

SetMonitor(m) ==
    /\ intervalId' = m.intervalId
    /\ intervalSeconds' = m.intervalSeconds
    /\ timers' = m.timers
    /\ text' = m.text

\* The operation that made the last step, and its argument
Call(op, arg) == [op |-> op, arg |-> arg]

\* The fields of a monitor that a cycle or the menu reads or writes, after
\* new ResourceMonitor(n); cycles are its collectAndUpdate calls in flight
NewMonitor ==
    [displayOptions |-> [showCpu |-> TRUE, showMemory |-> TRUE, showLoad |-> TRUE],
     lastCpuIdle |-> Null, lastCpuTotal |-> Null,
     text |-> EmptyString, tooltip |-> EmptyString, cycles |-> <<>>]

(***************************************************************************)
(* State after new ResourceMonitor(n)                                      *)
(***************************************************************************)
Constructed ==
    /\ intervalId = NoTimer
    /\ intervalSeconds \in Intervals
    /\ timers = <<>>
    /\ text = EmptyString
    /\ tooltip = EmptyString
    /\ displayOptions = [showCpu |-> TRUE, showMemory |-> TRUE, showLoad |-> TRUE]
    /\ lastCpuIdle = Null
    /\ lastCpuTotal = Null
    /\ cycles = <<>>
    /\ started = 0
    /\ errorMessages = <<>>
    /\ menus = 0
    /\ called = Call("new", 0)
    /\ returned = Undefined
    /\ samples = <<>>
    /\ pair = <<NewMonitor, NewMonitor>>

\* The monitor constructed on its own, as the tests construct it
Init ==
    /\ Constructed
    /\ extension = [active |-> FALSE, intervalSeconds |-> 0, configured |-> 0]
    /\ order = [kept |-> "none", reads |-> 0, stored |-> 0]

(***************************************************************************)
(* Operations.  cycles holds the collectAndUpdate calls that are           *)
(* suspended on a read, in the order they were started; started counts     *)
(* the calls made so far.                                                  *)
(***************************************************************************)
\* Variant: start() also forgets the CPU counters
Start_ResetCounters ==
    /\ Len(timers) < MaxTimers
    /\ SetMonitor(start(Monitor))
    /\ lastCpuIdle' = Null
    /\ lastCpuTotal' = Null
    /\ called' = Call("start", 0)
    /\ UNCHANGED <<tooltip, displayOptions, cycles, started, errorMessages, menus,
                   returned, samples, extension, order, pair>>

\* start()
Start ==
    /\ Len(timers) < MaxTimers
    /\ SetMonitor(start(Monitor))
    /\ called' = Call("start", 0)
    /\ UNCHANGED <<tooltip, displayOptions, lastCpuIdle, lastCpuTotal, cycles, started,
                   errorMessages, menus, returned, samples, extension, order, pair>>

\* Variant: stop() also abandons the cycles in flight
Stop_AbortCycles ==
    /\ SetMonitor(stop(Monitor))
    /\ called' = Call("stop", 0)
    /\ cycles' = <<>>
    /\ UNCHANGED <<tooltip, displayOptions, lastCpuIdle, lastCpuTotal, started, errorMessages,
                   menus, returned, samples, extension, order, pair>>

\* stop()
Stop ==
    /\ SetMonitor(stop(Monitor))
    /\ called' = Call("stop", 0)
    /\ UNCHANGED <<tooltip, displayOptions, lastCpuIdle, lastCpuTotal, cycles, started,
                   errorMessages, menus, returned, samples, extension, order, pair>>

UpdateInterval(n) ==
    /\ intervalId # NoTimer => Len(timers) < MaxTimers
    /\ SetMonitor(updateInterval(Monitor, n))
    /\ called' = Call("updateInterval", n)
    /\ UNCHANGED <<tooltip, displayOptions, lastCpuIdle, lastCpuTotal, cycles, started,
                   errorMessages, menus, returned, samples, extension, order, pair>>

\* collectAndUpdate() up to its first await: the read of /proc/stat is pending
NewCycle == [pc |-> "stat", cpuData |-> <<>>, memData |-> <<>>, seq |-> 0, old |-> FALSE]

\* The cycles in flight once the selection is options: those that started
\* under another selection are old
Outdated(options) ==
    [c \in 1..Len(cycles) |->
        [cycles[c] EXCEPT !.old = @ \/ (order.kept = "selections"
                                         /\ options # displayOptions)]]

\* The number given to the next read of /proc/stat
ReadNumber == IF order.kept = "reads" THEN order.reads + 1 ELSE 0

\* cycles without its c-th element
Remove(seq, c) == SubSeq(seq, 1, c - 1) \o SubSeq(seq, c + 1, Len(seq))

\* Variant: a tick is skipped while an earlier cycle is still in flight
Tick_SkipIfBusy(t) ==
    /\ t \in 1..Len(timers)
    /\ timers[t] # Cancelled
    /\ started < MaxCycles
    /\ cycles' = IF cycles = <<>> THEN Append(cycles, NewCycle) ELSE cycles
    /\ started' = started + 1
    /\ called' = Call("tick", t)
    /\ UNCHANGED <<intervalId, intervalSeconds, timers, text, tooltip, displayOptions,
                   lastCpuIdle, lastCpuTotal, errorMessages, menus, returned, samples, extension,
                   order, pair>>

\* Timer t fires and its callback calls collectAndUpdate()
Tick(t) ==
    /\ t \in 1..Len(timers)
    /\ timers[t] # Cancelled
    /\ started < MaxCycles
    /\ cycles' = Append(cycles, NewCycle)
    /\ started' = started + 1
    /\ called' = Call("tick", t)
    /\ UNCHANGED <<intervalId, intervalSeconds, timers, text, tooltip, displayOptions,
                   lastCpuIdle, lastCpuTotal, errorMessages, menus, returned, samples, extension,
                   order, pair>>

\* Variant: the CPU text is parsed as soon as it is read
ReadStat_ParseEarly(c, data) ==
    /\ c \in 1..Len(cycles)
    /\ cycles[c].pc = "stat"
    /\ cycles' = [cycles EXCEPT ![c].pc = "meminfo", ![c].cpuData = data,
                                ![c].seq = ReadNumber]
    /\ order' = [order EXCEPT !.reads = ReadNumber]
    /\ lastCpuIdle' = parseCPUUsage(data, lastCpuIdle, lastCpuTotal).lastCpuIdle
    /\ lastCpuTotal' = parseCPUUsage(data, lastCpuIdle, lastCpuTotal).lastCpuTotal
    /\ called' = Call("read", 0)
    /\ UNCHANGED <<intervalId, intervalSeconds, timers, text, tooltip, displayOptions, started,
                   errorMessages, menus, returned, samples, extension, pair>>

\* Cycle c: the read of /proc/stat resolves with data
ReadStat(c, data) ==
    /\ c \in 1..Len(cycles)
    /\ cycles[c].pc = "stat"
    /\ cycles' = [cycles EXCEPT ![c].pc = "meminfo", ![c].cpuData = data,
                                ![c].seq = ReadNumber]
    /\ order' = [order EXCEPT !.reads = ReadNumber]
    /\ called' = Call("read", 0)
    /\ UNCHANGED <<intervalId, intervalSeconds, timers, text, tooltip, displayOptions,
                   lastCpuIdle, lastCpuTotal, started, errorMessages, menus, returned, samples,
                   extension, pair>>

\* Cycle c: the read of /proc/meminfo resolves with data
ReadMeminfo(c, data) ==
    /\ c \in 1..Len(cycles)
    /\ cycles[c].pc = "meminfo"
    /\ cycles' = [cycles EXCEPT ![c].pc = "loadavg", ![c].memData = data]
    /\ called' = Call("read", 0)
    /\ UNCHANGED <<intervalId, intervalSeconds, timers, text, tooltip, displayOptions,
                   lastCpuIdle, lastCpuTotal, started, errorMessages, menus, returned, samples,
                   extension, order, pair>>

\* Variant: a cycle that started under another selection renders with the
\* selection the monitor was constructed with
ReadLoadavg_StaleSelection(c, data) ==
    /\ c \in 1..Len(cycles)
    /\ cycles[c].pc = "loadavg"
    /\ LET cpu == parseCPUUsage(cycles[c].cpuData, lastCpuIdle, lastCpuTotal)
           memoryUsage == parseMemoryUsage(cycles[c].memData)
           loadAverages == parseLoadAverages(data)
           options == IF cycles[c].old
                      THEN [showCpu |-> TRUE, showMemory |-> TRUE, showLoad |-> TRUE]
                      ELSE displayOptions
           bar == updateStatusBar(options, cpu.ret, memoryUsage, loadAverages)
       IN /\ lastCpuIdle' = cpu.lastCpuIdle
          /\ lastCpuTotal' = cpu.lastCpuTotal
          /\ text' = bar.text
          /\ tooltip' = bar.tooltip
    /\ cycles' = Remove(cycles, c)
    /\ order' = [order EXCEPT !.stored = IF HasCpuLine(cycles[c].cpuData)
                                         THEN cycles[c].seq ELSE @]
    /\ called' = Call("render", IF cycles[c].old THEN 1 ELSE 0)
    /\ UNCHANGED <<intervalId, intervalSeconds, timers, displayOptions, started, errorMessages,
                   menus, returned, samples, extension, pair>>

\* Cycle c: the read of /proc/loadavg resolves with data; the three texts are
\* parsed, the status bar is updated and the cycle ends
ReadLoadavg(c, data) ==
    /\ c \in 1..Len(cycles)
    /\ cycles[c].pc = "loadavg"
    /\ LET cpu == parseCPUUsage(cycles[c].cpuData, lastCpuIdle, lastCpuTotal)
           memoryUsage == parseMemoryUsage(cycles[c].memData)
           loadAverages == parseLoadAverages(data)
           bar == updateStatusBar(displayOptions, cpu.ret, memoryUsage, loadAverages)
       IN /\ lastCpuIdle' = cpu.lastCpuIdle
          /\ lastCpuTotal' = cpu.lastCpuTotal
          /\ text' = bar.text
          /\ tooltip' = bar.tooltip
    /\ cycles' = Remove(cycles, c)
    /\ order' = [order EXCEPT !.stored = IF HasCpuLine(cycles[c].cpuData)
                                         THEN cycles[c].seq ELSE @]
    /\ called' = Call("render", IF cycles[c].old THEN 1 ELSE 0)
    /\ UNCHANGED <<intervalId, intervalSeconds, timers, displayOptions, started, errorMessages,
                   menus, returned, samples, extension, pair>>

\* `Resource collection error: ${error instanceof Error ? error.message : error}`
ErrorText(error) == <<"Resource collection error: ", error.message>>

\* Cycle c: the pending read rejects with error; the catch block reports it
\* and the cycle ends
ReadFails(c, error) ==
    /\ c \in 1..Len(cycles)
    /\ cycles[c].pc \in {"stat", "meminfo", "loadavg"}
    /\ errorMessages' = Append(errorMessages, ErrorText(error))
    /\ cycles' = Remove(cycles, c)
    /\ called' = Call("fail", 0)
    /\ UNCHANGED <<intervalId, intervalSeconds, timers, text, tooltip, displayOptions,
                   lastCpuIdle, lastCpuTotal, started, menus, returned, samples, extension,
                   order, pair>>

\* Cycle c: the pending read never settles
ReadHangs(c) ==
    /\ c \in 1..Len(cycles)
    /\ cycles[c].pc \in {"stat", "meminfo", "loadavg"}
    /\ cycles' = [cycles EXCEPT ![c] = [pc |-> "hung", cpuData |-> <<>>, memData |-> <<>>,
                                    seq |-> 0, old |-> FALSE]]
    /\ called' = Call("hang", 0)
    /\ UNCHANGED <<intervalId, intervalSeconds, timers, text, tooltip, displayOptions,
                   lastCpuIdle, lastCpuTotal, started, errorMessages, menus, returned, samples,
                   extension, order, pair>>

\* The status bar command runs showDisplayOptionsMenu() up to its await
OpenMenu ==
    /\ menus < MaxMenus
    /\ menus' = menus + 1
    /\ called' = Call("menu", 0)
    /\ UNCHANGED <<intervalId, intervalSeconds, timers, text, tooltip, displayOptions,
                   lastCpuIdle, lastCpuTotal, cycles, started, errorMessages, returned, samples,
                   extension, order, pair>>

\* The items of a selection as a number: 1 for CPU, 2 for Memory, 4 for Load
SelectionCode(selected) ==
    (IF "CPU" \in selected THEN 1 ELSE 0) + (IF "Memory" \in selected THEN 2 ELSE 0)
        + (IF "Load" \in selected THEN 4 ELSE 0)

\* Variant: an empty selection is treated as a dismissed picker
PickSelected_IgnoreEmpty(selected) ==
    /\ menus > 0
    /\ started < MaxCycles
    /\ menus' = menus - 1
    /\ displayOptions' = IF selected = {} THEN displayOptions
                         ELSE [showCpu |-> \E l \in selected : l = "CPU",
                               showMemory |-> \E l \in selected : l = "Memory",
                               showLoad |-> \E l \in selected : l = "Load"]
    /\ cycles' = IF selected = {} THEN cycles
                 ELSE Append(Outdated(displayOptions'), NewCycle)
    /\ started' = IF selected = {} THEN started ELSE started + 1
    /\ called' = Call("pick", SelectionCode(selected))
    /\ UNCHANGED <<intervalId, intervalSeconds, timers, text, tooltip, lastCpuIdle, lastCpuTotal,
                   errorMessages, returned, samples, extension, order, pair>>

\* showQuickPick resolves with the items whose labels are selected
PickSelected(selected) ==
    /\ menus > 0
    /\ started < MaxCycles
    /\ menus' = menus - 1
    /\ displayOptions' = [showCpu |-> \E l \in selected : l = "CPU",
                          showMemory |-> \E l \in selected : l = "Memory",
                          showLoad |-> \E l \in selected : l = "Load"]
    /\ cycles' = Append(Outdated(displayOptions'), NewCycle)
    /\ started' = started + 1
    /\ called' = Call("pick", SelectionCode(selected))
    /\ UNCHANGED <<intervalId, intervalSeconds, timers, text, tooltip, lastCpuIdle, lastCpuTotal,
                   errorMessages, returned, samples, extension, order, pair>>

\* showQuickPick resolves with undefined
PickDismissed ==
    /\ menus > 0
    /\ menus' = menus - 1
    /\ called' = Call("dismiss", 0)
    /\ UNCHANGED <<intervalId, intervalSeconds, timers, text, tooltip, displayOptions,
                   lastCpuIdle, lastCpuTotal, cycles, started, errorMessages, returned, samples,
                   extension, order, pair>>

Next ==
    \/ Start
    \/ Stop
    \/ \E n \in Intervals : UpdateInterval(n)
    \/ \E t \in 1..MaxTimers : Tick(t)
    \/ \E c \in 1..MaxCycles : \E data \in StatReads : ReadStat(c, data)
    \/ \E c \in 1..MaxCycles : \E data \in MeminfoReads : ReadMeminfo(c, data)
    \/ \E c \in 1..MaxCycles : \E data \in LoadavgReads : ReadLoadavg(c, data)
    \/ \E c \in 1..MaxCycles : \E error \in ReadErrors : ReadFails(c, error)
    \/ \E c \in 1..MaxCycles : ReadHangs(c)
    \/ OpenMenu
    \/ \E selected \in Selections : PickSelected(selected)
    \/ PickDismissed

Spec == Init /\ [][Next]_vars

(***************************************************************************)
(* Overlapping cycles with the reads of /proc/stat numbered                *)
(***************************************************************************)
InitOrder ==
    /\ Constructed
    /\ extension = [active |-> FALSE, intervalSeconds |-> 0, configured |-> 0]
    /\ order = [kept |-> "reads", reads |-> 0, stored |-> 0]

NextOrder ==
    \/ Start
    \/ \E t \in 1..MaxTimers : Tick(t)
    \/ \E c \in 1..MaxCycles : \E data \in StatReads : ReadStat(c, data)
    \/ \E c \in 1..MaxCycles : \E data \in MeminfoReads : ReadMeminfo(c, data)
    \/ \E c \in 1..MaxCycles : \E data \in LoadavgReads : ReadLoadavg(c, data)
    \/ OpenMenu
    \/ \E selected \in Selections : PickSelected(selected)

SpecOrder == InitOrder /\ [][NextOrder]_vars

(***************************************************************************)
(* Overlapping cycles with the changes of the selection remembered         *)
(***************************************************************************)
InitSelection ==
    /\ Constructed
    /\ extension = [active |-> FALSE, intervalSeconds |-> 0, configured |-> 0]
    /\ order = [kept |-> "selections", reads |-> 0, stored |-> 0]

SpecSelection == InitSelection /\ [][NextOrder]_vars

(***************************************************************************)
(* parseCPUUsage called directly, as the tests call it: samples holds the  *)
(* texts of the calls made so far, returned the value of the last call     *)
(***************************************************************************)
CallParseCPUUsage(data) ==
    /\ Len(samples) < MaxCalls
    /\ LET cpu == parseCPUUsage(data, lastCpuIdle, lastCpuTotal)
       IN /\ lastCpuIdle' = cpu.lastCpuIdle
          /\ lastCpuTotal' = cpu.lastCpuTotal
          /\ returned' = cpu.ret
    /\ samples' = Append(samples, data)
    /\ called' = Call("parseCPUUsage", 0)
    /\ UNCHANGED <<intervalId, intervalSeconds, timers, text, tooltip, displayOptions, cycles,
                   started, errorMessages, menus, extension, order, pair>>

NextCpu == \E data \in CpuTexts : CallParseCPUUsage(data)

SpecCpu == Init /\ [][NextCpu]_vars

(***************************************************************************)
(* Two monitors side by side.  The steps of a cycle and of the menu are    *)
(* written as functions of the monitor m they act on; a tick starts a      *)
(* cycle in both monitors, a read resolves with the same text in both, and *)
(* the picker of each returns its own selection.                           *)
(***************************************************************************)
\* collectAndUpdate() up to its first await
collectAndUpdate(m) == [m EXCEPT !.cycles = Append(@, NewCycle)]

\* Cycle c of m: the read of /proc/stat resolves with data
statRead(m, c, data) ==
    [m EXCEPT !.cycles[c].pc = "meminfo", !.cycles[c].cpuData = data]

\* Cycle c of m: the read of /proc/meminfo resolves with data
meminfoRead(m, c, data) ==
    [m EXCEPT !.cycles[c].pc = "loadavg", !.cycles[c].memData = data]

\* Variant: the CPU text is parsed only when the CPU metric is shown
loadavgRead_CpuIfShown(m, c, data) ==
    LET cpu == IF m.displayOptions.showCpu
               THEN parseCPUUsage(m.cycles[c].cpuData, m.lastCpuIdle, m.lastCpuTotal)
               ELSE [ret |-> Num(0), lastCpuIdle |-> m.lastCpuIdle,
                     lastCpuTotal |-> m.lastCpuTotal]
        memoryUsage == parseMemoryUsage(m.cycles[c].memData)
        loadAverages == parseLoadAverages(data)
        bar == updateStatusBar(m.displayOptions, cpu.ret, memoryUsage, loadAverages)
    IN [m EXCEPT !.lastCpuIdle = cpu.lastCpuIdle,
                 !.lastCpuTotal = cpu.lastCpuTotal,
                 !.text = bar.text,
                 !.tooltip = bar.tooltip,
                 !.cycles = Remove(@, c)]

\* Cycle c of m: the read of /proc/loadavg resolves with data; the texts are
\* parsed, the status bar is updated and the cycle ends
loadavgRead(m, c, data) ==
    LET cpu == parseCPUUsage(m.cycles[c].cpuData, m.lastCpuIdle, m.lastCpuTotal)
        memoryUsage == parseMemoryUsage(m.cycles[c].memData)
        loadAverages == parseLoadAverages(data)
        bar == updateStatusBar(m.displayOptions, cpu.ret, memoryUsage, loadAverages)
    IN [m EXCEPT !.lastCpuIdle = cpu.lastCpuIdle,
                 !.lastCpuTotal = cpu.lastCpuTotal,
                 !.text = bar.text,
                 !.tooltip = bar.tooltip,
                 !.cycles = Remove(@, c)]

\* showDisplayOptionsMenu() once showQuickPick has resolved with selected
showDisplayOptionsMenu(m, selected) ==
    collectAndUpdate([m EXCEPT !.displayOptions =
                         [showCpu |-> \E l \in selected : l = "CPU",
                          showMemory |-> \E l \in selected : l = "Memory",
                          showLoad |-> \E l \in selected : l = "Load"]])

\* Cycle c of both monitors awaits the read at pc
BothAt(c, pc) ==
    \A i \in 1..2 : c \in 1..Len(pair[i].cycles) /\ pair[i].cycles[c].pc = pc

PairTick ==
    /\ started < MaxCycles
    /\ pair' = [i \in 1..2 |-> collectAndUpdate(pair[i])]
    /\ started' = started + 1
    /\ called' = Call("tick", 0)
    /\ UNCHANGED <<intervalId, intervalSeconds, timers, text, tooltip, displayOptions,
                   lastCpuIdle, lastCpuTotal, cycles, errorMessages, menus, returned,
                   samples, extension, order>>

PairReadStat(c, data) ==
    /\ BothAt(c, "stat")
    /\ pair' = [i \in 1..2 |-> statRead(pair[i], c, data)]
    /\ called' = Call("read", 0)
    /\ UNCHANGED <<intervalId, intervalSeconds, timers, text, tooltip, displayOptions,
                   lastCpuIdle, lastCpuTotal, cycles, started, errorMessages, menus,
                   returned, samples, extension, order>>

PairReadMeminfo(c, data) ==
    /\ BothAt(c, "meminfo")
    /\ pair' = [i \in 1..2 |-> meminfoRead(pair[i], c, data)]
    /\ called' = Call("read", 0)
    /\ UNCHANGED <<intervalId, intervalSeconds, timers, text, tooltip, displayOptions,
                   lastCpuIdle, lastCpuTotal, cycles, started, errorMessages, menus,
                   returned, samples, extension, order>>

PairReadLoadavg(c, data) ==
    /\ BothAt(c, "loadavg")
    /\ pair' = [i \in 1..2 |-> loadavgRead(pair[i], c, data)]
    /\ called' = Call("render", 0)
    /\ UNCHANGED <<intervalId, intervalSeconds, timers, text, tooltip, displayOptions,
                   lastCpuIdle, lastCpuTotal, cycles, started, errorMessages, menus,
                   returned, samples, extension, order>>

\* The picker of the first monitor returns selected1, that of the second
\* selected2
PairPick(selected1, selected2) ==
    /\ started < MaxCycles
    /\ pair' = <<showDisplayOptionsMenu(pair[1], selected1),
                 showDisplayOptionsMenu(pair[2], selected2)>>
    /\ started' = started + 1
    /\ called' = Call("pick", 0)
    /\ UNCHANGED <<intervalId, intervalSeconds, timers, text, tooltip, displayOptions,
                   lastCpuIdle, lastCpuTotal, cycles, errorMessages, menus, returned,
                   samples, extension, order>>

NextPair ==
    \/ PairTick
    \/ \E c \in 1..MaxCycles : \E data \in StatReads : PairReadStat(c, data)
    \/ \E c \in 1..MaxCycles : \E data \in MeminfoTexts : PairReadMeminfo(c, data)
    \/ \E c \in 1..MaxCycles : \E data \in LoadavgReads : PairReadLoadavg(c, data)
    \/ \E selected1, selected2 \in Selections : PairPick(selected1, selected2)

SpecPair == Init /\ [][NextPair]_vars

(***************************************************************************)
(* The menu under every selection of the picker, with and without an       *)
(* active timer                                                            *)
(***************************************************************************)
NextMenu ==
    \/ Start
    \/ Stop
    \/ \E t \in 1..MaxTimers : Tick(t)
    \/ OpenMenu
    \/ \E selected \in AllSelections : PickSelected(selected)
    \/ PickDismissed

SpecMenu == Init /\ [][NextMenu]_vars

(***************************************************************************)
(* The extension on a remote host.  activate() reads the configured        *)
(* interval into the const intervalSeconds, constructs the monitor with it *)
(* and starts it; InitExt is activate() after new ResourceMonitor.         *)
(***************************************************************************)
InitExt ==
    /\ Constructed
    /\ extension = [active |-> FALSE, intervalSeconds |-> intervalSeconds,
                    configured |-> intervalSeconds]
    /\ order = [kept |-> "none", reads |-> 0, stored |-> 0]

\* monitor.start() and the two subscriptions
Activate ==
    /\ ~extension.active
    /\ timers = <<>>
    /\ SetMonitor(start(Monitor))
    /\ extension' = [extension EXCEPT !.active = TRUE]
    /\ called' = Call("activate", 0)
    /\ UNCHANGED <<tooltip, displayOptions, lastCpuIdle, lastCpuTotal, cycles, started,
                   errorMessages, menus, returned, samples, order, pair>>

\* monitorIntervalSeconds is set to n and the onDidChangeConfiguration
\* listener runs: it compares n with the const intervalSeconds of activate()
ConfigurationChanged(n) ==
    /\ extension.active
    /\ n # extension.configured
    /\ (n # extension.intervalSeconds /\ intervalId # NoTimer) => Len(timers) < MaxTimers
    /\ extension' = [extension EXCEPT !.configured = n]
    /\ IF n # extension.intervalSeconds
       THEN SetMonitor(updateInterval(Monitor, n))
       ELSE UNCHANGED <<intervalId, intervalSeconds, timers, text>>
    /\ called' = Call("configure", n)
    /\ UNCHANGED <<tooltip, displayOptions, lastCpuIdle, lastCpuTotal, cycles, started,
                   errorMessages, menus, returned, samples, order, pair>>

\* The subscriptions are disposed: monitor.stop()
Deactivate ==
    /\ extension.active
    /\ SetMonitor(stop(Monitor))
    /\ extension' = [extension EXCEPT !.active = FALSE]
    /\ called' = Call("dispose", 0)
    /\ UNCHANGED <<tooltip, displayOptions, lastCpuIdle, lastCpuTotal, cycles, started,
                   errorMessages, menus, returned, samples, order, pair>>

NextExt ==
    \/ Activate
    \/ \E n \in Intervals : ConfigurationChanged(n)
    \/ Deactivate
    \/ \E t \in 1..MaxTimers : Tick(t)
    \/ \E c \in 1..MaxCycles : \E data \in StatReads : ReadStat(c, data)
    \/ \E c \in 1..MaxCycles : \E data \in MeminfoReads : ReadMeminfo(c, data)
    \/ \E c \in 1..MaxCycles : \E data \in LoadavgReads : ReadLoadavg(c, data)

SpecExt == InitExt /\ [][NextExt]_vars

(***************************************************************************)
(* Menu-triggered cycles under every selection of the picker; the read of  *)
(* /proc/meminfo resolves with a well-formed or with an unparseable text   *)
(***************************************************************************)
NextRender ==
    \/ OpenMenu
    \/ \E selected \in AllSelections : PickSelected(selected)
    \/ \E c \in 1..MaxCycles : \E data \in StatReads : ReadStat(c, data)
    \/ \E c \in 1..MaxCycles : \E data \in MeminfoTexts : ReadMeminfo(c, data)
    \/ \E c \in 1..MaxCycles : \E data \in LoadavgReads : ReadLoadavg(c, data)

SpecRender == Init /\ [][NextRender]_vars

(***************************************************************************)
(* parseMemoryUsage called directly, as the tests call it                  *)
(***************************************************************************)
CallParseMemoryUsage(data) ==
    /\ Len(samples) < MaxCalls
    /\ returned' = parseMemoryUsage(data)
    /\ samples' = Append(samples, data)
    /\ called' = Call("parseMemoryUsage", 0)
    /\ UNCHANGED <<intervalId, intervalSeconds, timers, text, tooltip, displayOptions,
                   lastCpuIdle, lastCpuTotal, cycles, started, errorMessages, menus, extension,
                   order, pair>>

NextMem == \E data \in MemTexts : CallParseMemoryUsage(data)

SpecMem == Init /\ [][NextMem]_vars

(***************************************************************************)
(* Properties of the scheduler                                             *)
(***************************************************************************)
ActiveTimers == {i \in 1..Len(timers) : timers[i] # Cancelled}

\* C1: after any sequence of start(), stop() and updateInterval(n), every
\* timer the monitor created and that is not the one held in intervalId has
\* been cancelled; when intervalId is null no created timer is active.
C1_AtMostOneTimer ==
    /\ intervalId \in 0..Len(timers)
    /\ \A i \in ActiveTimers : i = intervalId
    /\ intervalId = NoTimer => ActiveTimers = {}

\* A restart happened: an earlier timer is cancelled and a later one is held
C1_Witness ==
    /\ Len(timers) >= 2
    /\ intervalId = Len(timers)
    /\ timers[1] = Cancelled
    /\ ActiveTimers = {intervalId}

\* C2: updateInterval(n) called while a timer is active cancels that timer
\* and leaves exactly one active timer, a new one, armed with n * 1000 ms;
\* the monitor is Running before and after.
C2_UpdateIntervalRearms ==
    [][(called'.op = "updateInterval" /\ intervalId # NoTimer) =>
          /\ timers'[intervalId] = Cancelled
          /\ intervalId' # NoTimer
          /\ intervalId' # intervalId
          /\ intervalId' \notin 1..Len(timers)
          /\ {i \in 1..Len(timers') : timers'[i] # Cancelled} = {intervalId'}
          /\ timers'[intervalId'] = called'.arg * 1000
          /\ intervalSeconds' = called'.arg]_vars

\* updateInterval(5) returned after it replaced the timer of a 1 s monitor
C2_Witness ==
    /\ called = Call("updateInterval", 5)
    /\ timers = <<Cancelled, 5000>>
    /\ intervalId = 2
    /\ intervalSeconds = 5

\* C3: updateInterval(n) called while no timer is active changes only the
\* stored intervalSeconds (no timer is created, the status text and all
\* other fields are unchanged), and start() arms its timer with the stored
\* intervalSeconds * 1000 ms, so the next start() uses n.
C3_UpdateIntervalStopped ==
    [][/\ (called'.op = "updateInterval" /\ intervalId = NoTimer) =>
             /\ intervalSeconds' = called'.arg
             /\ UNCHANGED <<intervalId, timers, text, tooltip, displayOptions, lastCpuIdle, lastCpuTotal,
                   cycles, started, errorMessages, menus, extension, order>>
       /\ called'.op = "start" =>
             /\ intervalSeconds' = intervalSeconds
             /\ intervalId' = Len(timers) + 1
             /\ Len(timers') = Len(timers) + 1
             /\ timers'[intervalId'] = intervalSeconds * 1000]_vars

\* updateInterval(5) returned on a monitor that never started a timer and
\* that a cycle started from the menu has rendered
C3_Witness ==
    /\ called = Call("updateInterval", 5)
    /\ intervalId = NoTimer
    /\ timers = <<>>
    /\ intervalSeconds = 5
    /\ text # EmptyString

\* C4 as stated: when stop() returns no timer is active and the status text
\* is the empty string, whether or not a timer was active at the call.
C4_StopAlwaysClearsText ==
    called.op = "stop" => (intervalId = NoTimer /\ ActiveTimers = {} /\ text = EmptyString)

\* C4: when stop() returns no timer is active; the status text is the empty
\* string if a timer was active at the call and is unchanged otherwise.
C4_StopClearsTextIfRunning ==
    [][called'.op = "stop" =>
          /\ intervalId' = NoTimer
          /\ \A i \in 1..Len(timers') : timers'[i] = Cancelled
          /\ intervalId # NoTimer => text' = EmptyString
          /\ intervalId = NoTimer => text' = text]_vars

\* stop() returned and the status text is not empty
C4_Witness ==
    /\ called.op = "stop"
    /\ intervalId = NoTimer
    /\ text # EmptyString

(***************************************************************************)
(* Properties of collectAndUpdate                                          *)
(***************************************************************************)
\* C5: a cycle in which one of the three reads fails is never partially
\* applied: neither the steps that took its earlier reads nor the failing
\* step write the status text, the tooltip or the CPU counters, and the
\* failing step reports exactly one message, which contains the message of
\* the failure.
C5_FailedCycleNotApplied ==
    [][/\ called'.op \in {"read", "fail"} =>
             UNCHANGED <<text, tooltip, lastCpuIdle, lastCpuTotal>>
       /\ called'.op = "read" => errorMessages' = errorMessages
       /\ called'.op = "fail" =>
             /\ Len(errorMessages') = Len(errorMessages) + 1
             /\ SubSeq(errorMessages', 1, Len(errorMessages)) = errorMessages
             /\ \E error \in ReadErrors :
                   errorMessages'[Len(errorMessages')] =
                       <<"Resource collection error: ", error.message>>]_vars

\* A cycle failed after an earlier one had primed the counters and rendered
C5_Witness ==
    /\ called.op = "fail"
    /\ Len(errorMessages) = 1
    /\ errorMessages[1][2] = "EACCES"
    /\ lastCpuIdle # Null
    /\ text # EmptyString

\* C6: a cycle that fails or hangs does not change the scheduler (intervalId,
\* the timers and the interval are as before the step), and a tick of the
\* active timer still starts its own new cycle, whatever the earlier cycles
\* are doing.
C6_SchedulerUnaffected ==
    [][/\ called'.op \in {"read", "fail", "hang", "render"} =>
             UNCHANGED <<intervalId, timers, intervalSeconds>>
       /\ (intervalId # NoTimer /\ started < MaxCycles) => ENABLED Tick(intervalId)
       /\ called'.op = "tick" =>
             /\ cycles' = Append(cycles, NewCycle)
             /\ UNCHANGED <<intervalId, timers, intervalSeconds, extension, order>>]_vars

\* A tick started a cycle while the cycle of an earlier tick hangs
C6_Witness ==
    /\ called.op = "tick"
    /\ intervalId # NoTimer
    /\ Len(cycles) = 2
    /\ cycles[1].pc = "hung"
    /\ cycles[2].pc = "stat"

(***************************************************************************)
(* Properties of parseCPUUsage.  The idle counter and the field sum of     *)
(* each input text are written out here, not taken from the parser.        *)
(***************************************************************************)
TextsWithAggregateLine ==
    {CpuData1, CpuData2, CpuDataZero, CpuDataA, CpuDataB, CpuDataC, CpuDataShort,
     CpuDataLetter}

Counters(idle, total) == [idle |-> idle, total |-> total]

ExpectedCounters(data) ==
    CASE data = CpuData1 -> Counters(Num(4000), Num(8100))
      [] data = CpuData2 -> Counters(Num(4500), Num(9700))
      [] data = CpuDataZero -> Counters(Num(0), Num(0))
      [] data = CpuDataA -> Counters(Num(3), Num(4))
      [] data = CpuDataB -> Counters(Num(2), Num(4))
      [] data = CpuDataC -> Counters(Num(1), Num(5))
      [] data = CpuDataShort -> Counters(Undefined, Num(7))
      [] data = CpuDataLetter -> Counters(Num(4), NaN)

NumericCounters(c) == IsNum(c.idle) /\ IsNum(c.total)

\* r hundredths is ((totalDiff - idleDiff) / totalDiff) * 100 rounded to 2
\* decimals: no other multiple of 0.01 is nearer to it
IsUsageOf(r, idleDiff, totalDiff) ==
    /\ IsNum(r)
    /\ 2 * Abs(r.v * totalDiff - (totalDiff - idleDiff) * 10000) <= Abs(totalDiff)

NumCalls == Len(samples)

\* total !== stored total (NaN differs from every value)
Differs(a, b) == ~(IsNum(a) /\ IsNum(b) /\ a = b)

\* The last call before call n whose text had an aggregate cpu line, 0 if none
PreviousParse(n) ==
    IF \E j \in 1..(n - 1) : samples[j] \in TextsWithAggregateLine
    THEN CHOOSE j \in 1..(n - 1) :
            /\ samples[j] \in TextsWithAggregateLine
            /\ \A k \in (j + 1)..(n - 1) : samples[k] \notin TextsWithAggregateLine
    ELSE 0

\* C7 as stated: the first call on a fresh monitor returns 0 for every input
\* and sets lastCpuIdle and lastCpuTotal.
C7_FirstCallAlwaysStores ==
    NumCalls = 1 =>
        /\ returned = Num(0)
        /\ lastCpuIdle # Null
        /\ lastCpuTotal # Null

\* C7: the first call on a fresh monitor returns 0 for every input; when the
\* text has an aggregate cpu line it stores the field sum in lastCpuTotal and
\* the fourth field in lastCpuIdle (undefined when the line has fewer than
\* four fields); when it has none both counters stay null.
C7_FirstCallReturnsZero ==
    NumCalls = 1 =>
        /\ returned = Num(0)
        /\ IF samples[1] \in TextsWithAggregateLine
           THEN /\ lastCpuIdle = ExpectedCounters(samples[1]).idle
                /\ lastCpuTotal = ExpectedCounters(samples[1]).total
           ELSE lastCpuIdle = Null /\ lastCpuTotal = Null

\* The first call was made on the text of the test and stored 4000 and 8100
C7_Witness ==
    /\ samples = <<CpuData1>>
    /\ returned = Num(0)
    /\ lastCpuIdle = Num(4000)
    /\ lastCpuTotal = Num(8100)

C9_DiffAgainstPrevious ==
    (NumCalls >= 1 /\ samples[NumCalls] \in TextsWithAggregateLine) =>
        LET cur == ExpectedCounters(samples[NumCalls])
            j == PreviousParse(NumCalls)
            prev == ExpectedCounters(samples[j])
        IN /\ lastCpuIdle = cur.idle
           /\ lastCpuTotal = cur.total
           /\ (j # 0 /\ Differs(cur.total, prev.total)) =>
                 IF NumericCounters(cur) /\ NumericCounters(prev)
                 THEN IsUsageOf(returned, cur.idle.v - prev.idle.v,
                                cur.total.v - prev.total.v)
                 ELSE returned = NaN
           /\ (j # 0 /\ samples[j] = CpuData1 /\ samples[NumCalls] = CpuData2) =>
                 returned = Num(6875)

\* Three parses, the third diffed against the second: the texts of the test
\* after another sample give 68.75
C9_Witness ==
    /\ samples = <<CpuDataA, CpuData1, CpuData2>>
    /\ returned = Num(6875)
    /\ lastCpuIdle = Num(4500)
    /\ lastCpuTotal = Num(9700)

\* C10: when two successive parses have the same numeric field sum
\* (totalDiff = 0) the second call returns exactly 0 and still stores the
\* idle counter and the total of its own sample.
C10_ZeroTotalDiff ==
    (NumCalls >= 2 /\ samples[NumCalls] \in TextsWithAggregateLine
       /\ PreviousParse(NumCalls) # 0
       /\ IsNum(ExpectedCounters(samples[NumCalls]).total)
       /\ ExpectedCounters(samples[NumCalls]).total =
              ExpectedCounters(samples[PreviousParse(NumCalls)]).total) =>
        /\ returned = Num(0)
        /\ lastCpuIdle = ExpectedCounters(samples[NumCalls]).idle
        /\ lastCpuTotal = ExpectedCounters(samples[NumCalls]).total

\* Two samples with sum 4 and idle counters 3 and 2: the second call
\* returned 0 and stored idle 2
C10_Witness ==
    /\ samples = <<CpuDataA, CpuDataB>>
    /\ returned = Num(0)
    /\ lastCpuIdle = Num(2)
    /\ lastCpuTotal = Num(4)

\* C11: a call of parseCPUUsage on a text without an aggregate cpu line
\* (per-core lines such as cpu0 do not count) returns 0 and leaves
\* lastCpuIdle and lastCpuTotal as they were, whether they were null or set.
C11_NoAggregateLine ==
    [][(called'.op = "parseCPUUsage" /\ Len(samples') = Len(samples) + 1
          /\ samples'[Len(samples')] \notin TextsWithAggregateLine) =>
           /\ returned' = Num(0)
           /\ lastCpuIdle' = lastCpuIdle
           /\ lastCpuTotal' = lastCpuTotal]_vars

\* After the text of the test, a text with per-core lines only returned 0
\* and the counters of the first text are still stored
C11_Witness ==
    /\ samples = <<CpuData1, CpuDataPerCore>>
    /\ returned = Num(0)
    /\ lastCpuIdle = Num(4000)
    /\ lastCpuTotal = Num(8100)

\* typeof x === "number"
IsNumber(x) == x.t \in {"num", "nan", "-inf", "+inf", "dec"}

\* C12 as stated: after any sequence of parseCPUUsage calls lastCpuIdle and
\* lastCpuTotal are both null or both numbers.
C12_CountersPaired ==
    \/ lastCpuIdle = Null /\ lastCpuTotal = Null
    \/ IsNumber(lastCpuIdle) /\ IsNumber(lastCpuTotal)

\* C13 as stated: every value parseCPUUsage returns lies between 0 and 100.
C13_UsageInRange ==
    NumCalls >= 1 => (IsNum(returned) /\ returned.v >= 0 /\ returned.v <= 10000)

\* The last text given to parseMemoryUsage has neither label
NoMemLabel ==
    \A i \in 1..Len(samples[NumCalls]) :
        /\ ~IsMemTotalLine(samples[NumCalls][i])
        /\ ~IsMemAvailableLine(samples[NumCalls][i])

\* C14 as stated: for every text parseMemoryUsage returns a number between 0
\* and 100 or NaN, and NaN when both labels are absent.
C14_MemoryInRange ==
    called.op = "parseMemoryUsage" =>
        /\ returned = NaN \/ (IsNum(returned) /\ returned.v >= 0 /\ returned.v <= 10000)
        /\ NoMemLabel => returned = NaN

\* The metric a segment of the status text or of the tooltip shows
MetricOf(segment) ==
    CASE segment.label \in {"CPU: ", "Resource information of the remote server\nCPU: "}
            -> "CPU"
      [] segment.label \in {"MEM: ", "Memory: "} -> "Memory"
      [] segment.label \in {"Load: "} -> "Load"
      [] OTHER -> "none"

Enabled(options) ==
    {m \in {"CPU"} : options.showCpu} \cup {m \in {"Memory"} : options.showMemory}
        \cup {m \in {"Load"} : options.showLoad}

Rank(metric) == CASE metric = "CPU" -> 1 [] metric = "Memory" -> 2 [] metric = "Load" -> 3

\* txt shows exactly the metrics enabled by options, once each, in the order
\* CPU, MEM, Load, as "CPU: <cpu>%", "MEM: <mem>%", "Load: <v1>, <v2>, <v3>"
\* with the values the tooltip tip shows; the placeholder when none is enabled
IsStatusText(txt, options, tip) ==
    /\ txt # EmptyString
    /\ IF Enabled(options) = {}
       THEN txt = Placeholder
       ELSE /\ {MetricOf(txt[i]) : i \in 1..Len(txt)} = Enabled(options)
            /\ Len(txt) = Cardinality(Enabled(options))
            /\ \A i, j \in 1..Len(txt) :
                   i < j => Rank(MetricOf(txt[i])) < Rank(MetricOf(txt[j]))
            /\ \A i \in 1..Len(txt) :
                   /\ txt[i].label \in {"CPU: ", "MEM: ", "Load: "}
                   /\ txt[i].suffix = IF MetricOf(txt[i]) = "Load" THEN "" ELSE "%"
                   /\ txt[i].values = tip[Rank(MetricOf(txt[i]))].values

\* C15: under each of the 8 selections and for every sample, the status text
\* a successful cycle writes is the enabled segments in the order CPU, MEM,
\* Load joined by " | ", the configuration placeholder when no metric is
\* enabled, and never the empty string.
C15_StatusText ==
    [][called'.op = "render" => IsStatusText(text', displayOptions', tooltip')]_vars

\* A cycle rendered CPU and Load with memory deselected
C15_Witness ==
    /\ called.op = "render"
    /\ displayOptions = [showCpu |-> TRUE, showMemory |-> FALSE, showLoad |-> TRUE]
    /\ text = <<Segment("CPU: ", <<Num(0)>>, "%"),
                Segment("Load: ", <<Decimal(125, 2), Decimal(75, 2), Decimal(5, 1)>>, "")>>

\* C18: stop() leaves the cycles in flight as they are (suspended on the
\* same reads, holding the same texts), and a cycle whose reads succeed while
\* no timer is active stores the counters of its own CPU text and writes the
\* status text and the tooltip.
C18_StopKeepsCycles ==
    [][/\ called'.op = "stop" => cycles' = cycles
       /\ intervalId = NoTimer =>
             \A c \in 1..Len(cycles) :
                (called'.op = "render" /\ cycles' = Remove(cycles, c)) =>
                   /\ lastCpuIdle' = ExpectedCounters(cycles[c].cpuData).idle
                   /\ lastCpuTotal' = ExpectedCounters(cycles[c].cpuData).total
                   /\ IsStatusText(text', displayOptions, tooltip')
                   /\ Len(tooltip') = 3]_vars

\* stop() has returned while a cycle started by a tick awaits its last read
C18_Witness ==
    /\ called.op = "stop"
    /\ intervalId = NoTimer
    /\ text = EmptyString
    /\ menus = 0
    /\ displayOptions = [showCpu |-> TRUE, showMemory |-> TRUE, showLoad |-> TRUE]
    /\ Len(cycles) = 1
    /\ cycles[1].pc = "loadavg"

\* C19 as stated: CPU samples are applied to the counters in the order they
\* were read: no cycle parses its sample when the counters hold a sample
\* that was read later than its own.
C19_SamplesAppliedInReadOrder ==
    [][called'.op = "render" => order'.stored >= order.stored]_vars

\* C20: every render, the one of a cycle that started before the selection
\* changed included, builds the status text from the selection that is
\* current when it renders, and leaves the selection as it is.
C20_RenderUsesCurrentSelection ==
    [][called'.op = "render" =>
          /\ displayOptions' = displayOptions
          /\ IsStatusText(text', displayOptions, tooltip')
          /\ called'.arg = 1 => \E c \in 1..Len(cycles) : cycles[c].old]_vars

\* A cycle that started under another selection rendered after every metric
\* was deselected: the text is the placeholder
C20_Witness ==
    /\ called = Call("render", 1)
    /\ displayOptions = [showCpu |-> FALSE, showMemory |-> FALSE, showLoad |-> FALSE]
    /\ text = Placeholder

\* C17 as stated: while the extension is active, once a change of
\* monitorIntervalSeconds has been handled the interval of the monitor and
\* the period of its active timer are the configured value.
C17_IntervalFollowsConfiguration ==
    extension.active =>
        /\ intervalSeconds = extension.configured
        /\ intervalId # NoTimer
        /\ timers[intervalId] = extension.configured * 1000

\* C16: two monitors given the same ticks and the same read results, each
\* with the selections its own picker returned, have the same cycles in
\* flight awaiting the same reads with the same texts, the same lastCpuIdle
\* and lastCpuTotal and the same tooltip, which shows all three metrics.
C16_SelectionDoesNotInfluenceSampling ==
    /\ pair[1].cycles = pair[2].cycles
    /\ pair[1].lastCpuIdle = pair[2].lastCpuIdle
    /\ pair[1].lastCpuTotal = pair[2].lastCpuTotal
    /\ pair[1].tooltip = pair[2].tooltip
    /\ \A i \in 1..2 :
          pair[i].tooltip # EmptyString =>
             <<MetricOf(pair[i].tooltip[1]), MetricOf(pair[i].tooltip[2]),
               MetricOf(pair[i].tooltip[3])>> = <<"CPU", "Memory", "Load">>

\* After two cycles the monitor showing nothing and the one showing the CPU
\* have different texts and both hold the counters of the second sample
C16_Witness ==
    /\ called.op = "render"
    /\ pair[1].displayOptions = [showCpu |-> FALSE, showMemory |-> FALSE, showLoad |-> FALSE]
    /\ pair[2].displayOptions = [showCpu |-> TRUE, showMemory |-> FALSE, showLoad |-> FALSE]
    /\ pair[1].text = Placeholder
    /\ pair[2].text = <<Segment("CPU: ", <<Num(6875)>>, "%")>>
    /\ pair[1].lastCpuIdle = Num(4500)
    /\ pair[2].lastCpuTotal = Num(9700)

\* C21: start(), stop() and updateInterval() leave lastCpuIdle, lastCpuTotal
\* and the display selection as they are; counters that are set are never
\* null again; and whatever timers were stopped and started in between, a
\* cycle that parses when the counters are set reports the usage of its
\* sample diffed against the counters of the last sample parsed (0 when the
\* totals are equal).
C21_SchedulerLeavesCounters ==
    [][/\ called'.op \in {"start", "stop", "updateInterval"} =>
             /\ lastCpuIdle' = lastCpuIdle
             /\ lastCpuTotal' = lastCpuTotal
             /\ displayOptions' = displayOptions
       /\ lastCpuIdle # Null => lastCpuIdle' # Null
       /\ lastCpuTotal # Null => lastCpuTotal' # Null
       /\ \A c \in 1..Len(cycles) :
             (called'.op = "render" /\ cycles' = Remove(cycles, c)
                /\ IsNum(lastCpuIdle) /\ IsNum(lastCpuTotal)) =>
                LET cur == ExpectedCounters(cycles[c].cpuData)
                    cpu == tooltip'[1].values[1]
                IN IF cur.total = lastCpuTotal THEN cpu = Num(0)
                   ELSE IsUsageOf(cpu, cur.idle.v - lastCpuIdle.v,
                                  cur.total.v - lastCpuTotal.v)]_vars

\* The second timer ticks after a restart: the text cleared by the stop is
\* still empty, so no cycle has rendered since, and the counters are those
\* of the sample parsed before the stop
C21_Witness ==
    /\ called = Call("tick", 2)
    /\ timers[1] = Cancelled
    /\ intervalId = 2
    /\ text = EmptyString
    /\ lastCpuIdle = Num(4000)
    /\ lastCpuTotal = Num(8100)
    /\ Len(cycles) = 1

\* The selection a picker returned: showCpu, showMemory and showLoad say
\* whether CPU, Memory and Load are among its items
FlagsOf(code) ==
    [showCpu |-> code % 2 = 1, showMemory |-> (code \div 2) % 2 = 1,
     showLoad |-> (code \div 4) % 2 = 1]

\* C22: a dismissed picker leaves the display selection and the cycles in
\* flight as they are; a picker that returns a subset, the empty one
\* included, replaces the three flags by that subset and starts one cycle,
\* which awaits its first read, whether or not a timer is active; neither
\* touches the timers.
C22_MenuResult ==
    [][/\ called'.op = "dismiss" =>
             /\ displayOptions' = displayOptions
             /\ cycles' = cycles
             /\ started' = started
       /\ called'.op = "pick" =>
             /\ displayOptions' = FlagsOf(called'.arg)
             /\ cycles' = Append(cycles, NewCycle)
             /\ started' = started + 1
       /\ called'.op \in {"dismiss", "pick"} =>
             /\ intervalId' = intervalId
             /\ timers' = timers]_vars

\* With no timer active and a cycle started by a tick still in flight, the
\* picker returned the empty subset: every flag is off and a second cycle
\* awaits its first read
C22_Witness ==
    /\ called = Call("pick", 0)
    /\ intervalId = NoTimer
    /\ timers # <<>>
    /\ displayOptions = [showCpu |-> FALSE, showMemory |-> FALSE, showLoad |-> FALSE]
    /\ cycles = <<NewCycle, NewCycle>>
    /\ started = 2

====
